---- MODULE Spec2Model ----
(***************************************************************************)
(* Model of the note ingestion pipeline of m-onty:                         *)
(*   src/src/ocr_vision.py    VisionOCR (response parsing, cost tracking)  *)
(*   src/src/ingest_notes.py  NoteIngestionPipeline (per image, per batch) *)
(*   src/src/preprocess.py    ImagePreprocessor (normalization)            *)
(*                                                                         *)
(* Text is modelled as a sequence of tokens.  The tokens are               *)
(*   "F"  the three-backtick fence           "J"  the letters json         *)
(*   "W"  a blank                            "x"  any other letter         *)
(*   "{" "}"  braces     "Q"  a double quote                               *)
(*   "K"  the member name "transcription" with its quotes and colon        *)
(*   "n"  a digit        "N"  the literal null                             *)
(* Money is counted in units of 1e-7 dollar, so that the per-token rates   *)
(* 2.50 and 10.00 dollars per million tokens are the integers 25 and 100.  *)
(***************************************************************************)
EXTENDS Integers, Sequences, FiniteSets, TLC

VARIABLES
    content,        \* the response body of the model call under test
    origin,         \* how that body was put together (wrapping, JSON value)
    handed,         \* the tier taken and the text given to json.loads
    parsed,         \* what extract_text_and_analyze made of the body
    ppc             \* "body" before the parsing block ran, "parsed" after

pvars == <<content, origin, handed, parsed, ppc>>

VARIABLES
    config,         \* the pipeline's settings, the directory and the pattern
    now,            \* the wall clock, in whole seconds
    bpc,            \* process_directory: "start", "loop", "returned", "raised"
    image_paths,    \* process_directory: the sorted matches
    idx,            \* process_directory: position of the loop in image_paths
    results,        \* process_directory: the results collected so far
    ipc,            \* process_single_image: the stage the image is in
    result,         \* process_single_image: the result dict being filled in
    trace,          \* process_single_image: preprocess_metadata
    ocr_input,      \* process_single_image: ocr_input_path
    base_ts,        \* process_single_image: the timestamp of base_name
    failure,        \* the exception that ended the current image, if any
    total_cost,     \* VisionOCR.total_cost
    fs,             \* the files under the output directory
    summaries       \* the batch summaries written

bvars == <<config, now, bpc, image_paths, idx, results, ipc, result, trace,
           ocr_input, base_ts, failure, total_cost, fs, summaries>>

VARIABLES
    lines,          \* detect_orientation: how many detected lines have each angle
    opc,            \* "detecting" while lines are found, "oriented" after
    orientation,    \* what detect_orientation returned
    rotation_applied \* process_image: metadata['rotation_applied']

ovars == <<lines, opc, orientation, rotation_applied>>

vars == <<content, origin, handed, parsed, ppc, config, now, bpc, image_paths,
          idx, results, ipc, result, trace, ocr_input, base_ts, failure,
          total_cost, fs, summaries, lines, opc, orientation, rotation_applied>>

-----------------------------------------------------------------------------
(* Bounds *)

\* longest string value inside a generated JSON text
MaxStr == 2
\* longest free-form response body (any token sequence)
MaxFree == 3
\* most files in the directory handed to process_directory
MaxFiles == 2
\* the clock runs from 0 to MaxClock seconds
MaxClock == 1
\* most lines the Hough transform reports for one image
MaxLines == 5

-----------------------------------------------------------------------------
(* Text helpers: str.split, str.strip, the `in` operator *)

Tokens == {"F", "J", "W", "x", "{", "}", "Q", "K", "n", "N"}

\* pat occurs in s at position i
OccursAt(s, pat, i) ==
    /\ i >= 1
    /\ i + Len(pat) - 1 <= Len(s)
    /\ \A k \in 1..Len(pat) : s[i + k - 1] = pat[k]

\* position of the first occurrence of pat in s, 0 when there is none
FirstOcc(s, pat) ==
    IF \E i \in 1..Len(s) : OccursAt(s, pat, i)
    THEN CHOOSE i \in 1..Len(s) :
            /\ OccursAt(s, pat, i)
            /\ \A j \in 1..(i - 1) : ~OccursAt(s, pat, j)
    ELSE 0

\* pat in s
Contains(s, pat) == FirstOcc(s, pat) # 0

\* s.split(pat)[0]
Piece0(s, pat) ==
    IF Contains(s, pat) THEN SubSeq(s, 1, FirstOcc(s, pat) - 1) ELSE s

\* what follows the first occurrence of pat in s
AfterFirst(s, pat) == SubSeq(s, FirstOcc(s, pat) + Len(pat), Len(s))

\* s.split(pat)[1], for an s that contains pat
Piece1(s, pat) == Piece0(AfterFirst(s, pat), pat)

RECURSIVE LStrip(_)
LStrip(s) == IF s # <<>> /\ Head(s) = "W" THEN LStrip(Tail(s)) ELSE s

RECURSIVE RStrip(_)
RStrip(s) ==
    IF s # <<>> /\ s[Len(s)] = "W" THEN RStrip(SubSeq(s, 1, Len(s) - 1)) ELSE s

\* s.strip()
Strip(s) == RStrip(LStrip(s))

-----------------------------------------------------------------------------
(* json.loads on token text *)

\* JSON values: a string, a number, null, or an object that has at most the
\* member "transcription"
StrVal(s) == [t |-> "str", s |-> s]
NumVal == [t |-> "num", s |-> <<>>]
NullVal == [t |-> "null", s |-> <<>>]
NoVal == [t |-> "absent", s |-> <<>>]

IsStringText(t) ==
    /\ Len(t) >= 2
    /\ t[1] = "Q"
    /\ t[Len(t)] = "Q"
    /\ \A i \in 2..(Len(t) - 1) : t[i] \notin {"Q", "K"}

IsNumberText(t) == t # <<>> /\ \A i \in 1..Len(t) : t[i] = "n"

IsScalarText(t) == IsStringText(t) \/ IsNumberText(t) \/ t = <<"N">>

ScalarOf(t) ==
    IF IsStringText(t) THEN StrVal(SubSeq(t, 2, Len(t) - 1))
    ELSE IF IsNumberText(t) THEN NumVal
    ELSE NullVal

\* the text between the braces of an object, blanks trimmed
Inner(t) == Strip(SubSeq(t, 2, Len(t) - 1))

IsObjectText(t) ==
    /\ Len(t) >= 2
    /\ t[1] = "{"
    /\ t[Len(t)] = "}"
    /\ \/ Inner(t) = <<>>
       \/ /\ Head(Inner(t)) = "K"
          /\ IsScalarText(Strip(Tail(Inner(t))))

\* json.loads(s): [ok |-> FALSE] stands for JSONDecodeError
JsonLoads(s) ==
    LET t == Strip(s) IN
    IF IsScalarText(t)
    THEN [ok |-> TRUE, dict |-> FALSE, transcription |-> ScalarOf(t)]
    ELSE IF IsObjectText(t)
    THEN [ok |-> TRUE, dict |-> TRUE,
          transcription |-> IF Inner(t) = <<>> THEN NoVal
                            ELSE ScalarOf(Strip(Tail(Inner(t))))]
    ELSE [ok |-> FALSE, dict |-> FALSE, transcription |-> NoVal]

-----------------------------------------------------------------------------
(* VisionOCR.extract_text_and_analyze: the parsing block *)

FallbackQuality == 3
FallbackNotes == "Response was not in expected JSON format"

\* JsonStr with the two fence tests in the other order
JsonStrPlainFirst(c) ==
    IF Contains(c, <<"F">>)
    THEN [tier |-> 2, text |-> Strip(Piece0(Piece1(c, <<"F">>), <<"F">>))]
    ELSE IF Contains(c, <<"F", "J">>)
    THEN [tier |-> 1, text |-> Strip(Piece0(Piece1(c, <<"F", "J">>), <<"F">>))]
    ELSE [tier |-> 3, text |-> c]

\* the tier taken and the text handed to json.loads
JsonStr(c) ==
    IF Contains(c, <<"F", "J">>)
    THEN [tier |-> 1, text |-> Strip(Piece0(Piece1(c, <<"F", "J">>), <<"F">>))]
    ELSE IF Contains(c, <<"F">>)
    THEN [tier |-> 2, text |-> Strip(Piece0(Piece1(c, <<"F">>), <<"F">>))]
    ELSE [tier |-> 3, text |-> c]

\* the record built when json.loads raised JSONDecodeError
FallbackRecord(c) ==
    [dict |-> TRUE, fallback |-> TRUE,
     keys |-> {"transcription", "key_concepts", "themes",
               "questions_or_insights", "suggested_tags", "quality_rating",
               "notes"},
     transcription |-> StrVal(c),
     key_concepts |-> <<>>, themes |-> <<>>,
     questions_or_insights |-> <<>>, suggested_tags |-> <<>>,
     quality_rating |-> FallbackQuality,
     notes |-> FallbackNotes]

\* the value json.loads returned, as the `result` of the parsing block
LoadedRecord(v) ==
    [dict |-> v.dict, fallback |-> FALSE,
     keys |-> IF v.dict /\ v.transcription.t # "absent"
              THEN {"transcription"} ELSE {},
     transcription |-> v.transcription,
     key_concepts |-> <<>>, themes |-> <<>>,
     questions_or_insights |-> <<>>, suggested_tags |-> <<>>,
     quality_rating |-> 0,
     notes |-> ""]

\* `result` after the try/except around json.loads
ParseResponse(c) ==
    LET v == JsonLoads(JsonStr(c).text) IN
    IF v.ok THEN LoadedRecord(v) ELSE FallbackRecord(c)

\* result['metadata'] = {...} raises TypeError unless result is a dict; the
\* outer handler logs and re-raises
ExtractRaises(c) == ~ParseResponse(c).dict

-----------------------------------------------------------------------------
(* Response bodies under test *)

RECURSIVE SeqsUpTo(_, _)
SeqsUpTo(S, n) ==
    IF n = 0 THEN {<<>>}
    ELSE LET shorter == SeqsUpTo(S, n - 1) IN
         shorter \cup {Append(s, x) : s \in shorter, x \in S}

\* characters the generated JSON strings are made of
StringTokens == {"F", "J", "W", "x", "}"}

\* JSON values a model may answer with, their strings no longer than n
ObjectValues(n) ==
    {[dict |-> TRUE, transcription |-> StrVal(s)] : s \in SeqsUpTo(StringTokens, n)}
    \cup {[dict |-> TRUE, transcription |-> v] : v \in {NumVal, NullVal, NoVal}}
ScalarValues(n) ==
    {[dict |-> FALSE, transcription |-> StrVal(s)] : s \in SeqsUpTo(StringTokens, n)}
    \cup {[dict |-> FALSE, transcription |-> v] : v \in {NumVal, NullVal}}

\* the JSON text of a scalar
ScalarText(v) ==
    IF v.t = "str" THEN <<"Q">> \o v.s \o <<"Q">>
    ELSE IF v.t = "num" THEN <<"n">>
    ELSE <<"N">>

\* the JSON text of a value
JsonText(v) ==
    IF ~v.dict THEN ScalarText(v.transcription)
    ELSE IF v.transcription.t = "absent" THEN <<"{", "}">>
    ELSE <<"{", "K">> \o ScalarText(v.transcription) \o <<"}">>

Pads == {<<>>, <<"W">>}
Around == {<<>>, <<"x">>, <<"x", "W">>}

\* a body and how it was put together
Wrapped(wrap, v, pad, pre, post) ==
    [origin |-> [wrap |-> wrap, dict |-> v.dict, transcription |-> v.transcription],
     content |->
        IF wrap = "json"
        THEN pre \o <<"F", "J">> \o pad \o JsonText(v) \o pad \o <<"F">> \o post
        ELSE IF wrap = "plain"
        THEN pre \o <<"F">> \o pad \o JsonText(v) \o pad \o <<"F">> \o post
        ELSE pad \o JsonText(v) \o pad]

\* the bodies under test: JSON values of strings up to maxStr, wrapped or
\* bare, and every token sequence up to maxFree
Bodies(maxStr, maxFree) ==
    {Wrapped(w, v, pad, pre, post) :
        w \in {"json", "plain"}, v \in ObjectValues(maxStr) \cup ScalarValues(maxStr),
        pad \in Pads, pre \in Around, post \in Around}
    \cup {Wrapped("bare", v, pad, <<>>, <<>>) :
        v \in ObjectValues(maxStr) \cup ScalarValues(maxStr), pad \in Pads}
    \cup {[origin |-> [wrap |-> "free", dict |-> FALSE, transcription |-> NoVal],
           content |-> c] : c \in SeqsUpTo(Tokens, maxFree)}

NotParsed ==
    [raised |-> FALSE, record |-> LoadedRecord([dict |-> FALSE, transcription |-> NoVal])]
NotHanded == [tier |-> 0, text |-> <<>>]

ParseInit ==
    /\ \E b \in Bodies(MaxStr, MaxFree) : content = b.content /\ origin = b.origin
    /\ handed = NotHanded
    /\ parsed = NotParsed
    /\ ppc = "body"

\* lines 120-170 on the body `content`
ParseStep ==
    /\ ppc = "body"
    /\ handed' = JsonStr(content)
    /\ parsed' = [raised |-> ExtractRaises(content), record |-> ParseResponse(content)]
    /\ ppc' = "parsed"
    /\ UNCHANGED <<content, origin>>

-----------------------------------------------------------------------------
(* ImagePreprocessor.detect_orientation and the auto-orient step *)

\* angles (whole degrees) a detected line may have: the edges of the bins and
\* points inside them
LineAngles == {0, 44, 45, 135, 225, 315, 359}

\* bins = [0, 45, 135, 225, 315, 360]
BinEdges == <<0, 45, 135, 225, 315, 360>>

\* np.histogram: bin i holds the angles from edge i up to edge i + 1, the
\* last bin its right edge too
InBin(a, i) ==
    /\ BinEdges[i] <= a
    /\ \/ a < BinEdges[i + 1]
       \/ i = Len(BinEdges) - 1 /\ a = BinEdges[i + 1]

RECURSIVE CountIn(_, _, _)
\* how many of the lines with an angle in S fall into bin i
CountIn(ls, S, i) ==
    IF S = {} THEN 0
    ELSE LET a == CHOOSE x \in S : TRUE
         IN (IF InBin(a, i) THEN ls[a] ELSE 0) + CountIn(ls, S \ {a}, i)

\* hist, _ = np.histogram(angles, bins=bins)
Hist(ls) == [i \in 1..(Len(BinEdges) - 1) |-> CountIn(ls, DOMAIN ls, i)]

\* np.argmax(hist): the first position of the greatest count, counted from 0
ArgMax(h) ==
    (CHOOSE i \in 1..Len(h) :
        /\ \A j \in 1..Len(h) : h[j] <= h[i]
        /\ \A j \in 1..(i - 1) : h[j] < h[i]) - 1

NoLines(ls) == \A a \in DOMAIN ls : ls[a] = 0

\* detect_orientation(image), given the lines the Hough transform found
DetectOrientation(ls) ==
    IF NoLines(ls) THEN 0
    ELSE LET dominant_bin == ArgMax(Hist(ls)) IN
         IF dominant_bin = 0 \/ dominant_bin = 4 THEN 0
         ELSE IF dominant_bin = 1 THEN 90
         ELSE IF dominant_bin = 2 THEN 180
         ELSE 270

RECURSIVE TotalLines(_, _)
TotalLines(ls, S) ==
    IF S = {} THEN 0
    ELSE LET a == CHOOSE x \in S : TRUE IN ls[a] + TotalLines(ls, S \ {a})

OrientInit ==
    /\ lines = [a \in LineAngles |-> 0]
    /\ opc = "detecting"
    /\ orientation = 0
    /\ rotation_applied = 0

\* cv2.HoughLines reports one more line
FindLine ==
    /\ opc = "detecting"
    /\ TotalLines(lines, LineAngles) < MaxLines
    /\ \E a \in LineAngles : lines' = [lines EXCEPT ![a] = @ + 1]
    /\ UNCHANGED <<opc, orientation, rotation_applied>>

\* process_image: angle = detect_orientation(image); if angle != 0 the image
\* is rotated and metadata['rotation_applied'] = angle
AutoOrient ==
    /\ opc = "detecting"
    /\ orientation' = DetectOrientation(lines)
    /\ rotation_applied' = IF orientation' # 0 THEN orientation' ELSE 0
    /\ opc' = "oriented"
    /\ UNCHANGED lines

\* the orientation variables at rest
OrientIdle ==
    /\ lines = [a \in LineAngles |-> 0]
    /\ opc = "idle"
    /\ orientation = 0
    /\ rotation_applied = 0

-----------------------------------------------------------------------------
(* Files, paths and result dicts of the pipeline *)

\* file names: the stem is a number standing for a one-letter stem, so that
\* the order of the numbers is the order of the names
ExtRank(e) == IF e = "jpg" THEN 1 ELSE 2
\* the files a directory may hold: a.jpg, a.png, b.jpg
Names ==
    {[stem |-> 1, ext |-> "jpg"], [stem |-> 1, ext |-> "png"],
     [stem |-> 2, ext |-> "jpg"]}
NoName == [stem |-> 0, ext |-> "none"]

Patterns == {"*.jpg", "*.png", "*"}

\* directory.glob(pattern)
Matches(pattern, name) ==
    \/ pattern = "*"
    \/ pattern = "*.jpg" /\ name.ext = "jpg"
    \/ pattern = "*.png" /\ name.ext = "png"

\* the order of two names as sorted() sees them
NameLess(a, b) ==
    \/ a.stem < b.stem
    \/ a.stem = b.stem /\ ExtRank(a.ext) < ExtRank(b.ext)

\* the members of S, greatest first
RECURSIVE SortedDescending(_)
SortedDescending(S) ==
    IF S = {} THEN <<>>
    ELSE LET m == CHOOSE x \in S : \A y \in S \ {x} : NameLess(y, x)
         IN <<m>> \o SortedDescending(S \ {m})

\* sorted(S)
RECURSIVE Sorted(_)
Sorted(S) ==
    IF S = {} THEN <<>>
    ELSE LET m == CHOOSE x \in S : \A y \in S \ {x} : NameLess(x, y)
         IN <<m>> \o Sorted(S \ {m})

NoPath == [dir |-> "none", ts |-> 0, stem |-> 0, ext |-> "none"]
\* processed_images_dir / f"{image_path.stem}_processed.jpg"
ProcessedPath(img) == [dir |-> "processed_images", ts |-> 0, stem |-> img.stem, ext |-> "jpg"]
\* notes_dir / f"{timestamp}_{image_path.stem}.md" and .json
NotePath(ts, img, ext) == [dir |-> "notes", ts |-> ts, stem |-> img.stem, ext |-> ext]
\* output_dir / f"batch_summary_{timestamp}.json"
SummaryPath(ts) == [dir |-> "root", ts |-> ts, stem |-> 0, ext |-> "json"]

NoTrace == [rotation_applied |-> 0, steps |-> <<>>]
\* ImagePreprocessor.process_image's metadata for a detected angle
TraceFor(angle) ==
    [rotation_applied |-> angle,
     steps |-> (IF angle # 0 THEN <<"rotated">> ELSE <<>>)
               \o <<"denoised", "contrast_enhanced">>]
Angles == {0, 90}

NoOcr ==
    [record |-> LoadedRecord([dict |-> FALSE, transcription |-> NoVal]),
     prompt_tokens |-> 0, completion_tokens |-> 0,
     estimated_cost |-> 0, total_session_cost |-> 0]

\* the result dict as created at the head of process_single_image; `keys`
\* holds the optional keys that have been set
NewResult(img) ==
    [source_image |-> img, success |-> FALSE, keys |-> {},
     preprocessed_image |-> NoPath, preprocessing |-> NoTrace,
     ocr |-> NoOcr, output_markdown |-> NoPath, output_json |-> NoPath,
     error |-> ""]
NoResult == NewResult(NoName)

NoFailure == [stage |-> "none", msg |-> ""]

\* str(e) of the exceptions a stage can raise.  The extraction call re-raises
\* whatever reached it, and an exception may carry no message at all
\* (MemoryError() and the like): its text is then the empty string
Texts(stage) == IF stage = "extract" THEN {"", stage} ELSE {stage}

\* path.write_text / cv2.imwrite: the file at `path` is replaced
WriteFile(files, path, kind, img, data) ==
    {f \in files : f.path # path}
        \cup {[path |-> path, kind |-> kind, src |-> img, data |-> data]}

PathsOf(files) == {f.path : f \in files}

-----------------------------------------------------------------------------
(* Cost accounting, in units of 1e-7 dollar *)

InputRate == 25
OutputRate == 100
RoundUnit == 1000

\* (prompt_tokens / 1_000_000) * 2.50 + (completion_tokens / 1_000_000) * 10.00
CallCost(p, c) == p * InputRate + c * OutputRate

\* round(x, 4): to the nearest 1e-4 dollar, ties to even
Round4(x) ==
    LET q == x \div RoundUnit
        r == x % RoundUnit
    IN IF 2 * r > RoundUnit \/ (2 * r = RoundUnit /\ q % 2 = 1)
       THEN (q + 1) * RoundUnit
       ELSE q * RoundUnit

\* responses the service may give in the pipeline, each a body with the
\* usage reported for it (prompt_tokens, completion_tokens): a JSON object,
\* plain text, a JSON number, an object whose transcription is a number
Responses ==
    {[body |-> <<"{", "K", "Q", "x", "Q", "}">>, prompt |-> 1000, completion |-> 200],
     [body |-> <<"x">>, prompt |-> 10, completion |-> 1],
     [body |-> <<"n">>, prompt |-> 10, completion |-> 1],
     [body |-> <<"{", "K", "n", "}">>, prompt |-> 1000, completion |-> 2]}

-----------------------------------------------------------------------------
(* NoteIngestionPipeline.process_single_image *)

\* the handler that forgets the text
CaughtNoText(r, msg) == r

\* except Exception as e: result['error'] = str(e)
Caught(r, msg) == [r EXCEPT !.keys = @ \cup {"error"}, !.error = msg]

\* a stage raised, the text is recorded, and the same stage is tried again
FailAndRetry(stage, msg) ==
    /\ result' = Caught(result, msg)
    /\ failure' = [stage |-> stage, msg |-> msg]
    /\ ipc' = ipc

\* a stage raised: the handler records the text and the function returns
Fail(stage, msg) ==
    /\ result' = Caught(result, msg)
    /\ failure' = [stage |-> stage, msg |-> msg]
    /\ ipc' = "failed"

\* the head of the function: the result dict, then the choice of the first stage
StartImage ==
    /\ bpc = "loop"
    /\ ipc = "pending"
    /\ idx <= Len(image_paths)
    /\ result' = NewResult(image_paths[idx])
    /\ failure' = NoFailure
    /\ trace' = NoTrace
    /\ base_ts' = 0
    /\ ocr_input' = IF config.preprocess_enabled THEN NoPath
                    ELSE [dir |-> "input", ts |-> 0,
                          stem |-> image_paths[idx].stem, ext |-> image_paths[idx].ext]
    /\ ipc' = IF config.preprocess_enabled THEN "normalizing" ELSE "extracting"
    /\ UNCHANGED <<config, now, bpc, image_paths, idx, results, total_cost, fs,
                   summaries, pvars, ovars>>

\* preprocessor.process_image: the image is loaded and normalized
Normalize ==
    /\ ipc = "normalizing"
    /\ \/ /\ Fail("load", "load")
          /\ UNCHANGED trace
       \/ /\ \E msg \in Texts("normalize") : Fail("normalize", msg)
          /\ UNCHANGED trace
       \/ /\ \E angle \in Angles : trace' = TraceFor(angle)
          /\ ipc' = "persisting"
          /\ UNCHANGED <<result, failure>>
    /\ UNCHANGED <<config, now, bpc, image_paths, idx, results, ocr_input,
                   base_ts, total_cost, fs, summaries, pvars, ovars>>

\* the normalized image is saved beside the notes, or to a temporary file
Persist ==
    /\ ipc = "persisting"
    /\ \/ /\ \E msg \in Texts("persist") : Fail("persist", msg)
          /\ UNCHANGED <<ocr_input, fs>>
       \/ /\ config.save_processed
          /\ fs' = WriteFile(fs, ProcessedPath(result.source_image), "image",
                             result.source_image, NoResult)
          /\ ocr_input' = ProcessedPath(result.source_image)
          /\ result' = [result EXCEPT
                            !.keys = @ \cup {"preprocessed_image", "preprocessing"},
                            !.preprocessed_image = ProcessedPath(result.source_image),
                            !.preprocessing = trace]
          /\ ipc' = "extracting"
          /\ UNCHANGED failure
       \/ /\ ~config.save_processed
          /\ ocr_input' = [dir |-> "tmp", ts |-> 0, stem |-> 0, ext |-> "jpg"]
          /\ ipc' = "extracting"
          /\ UNCHANGED <<result, failure, fs>>
    /\ UNCHANGED <<config, now, bpc, image_paths, idx, results, trace, base_ts,
                   total_cost, summaries, pvars, ovars>>

\* the running total with this call's cost rounded before it is added
AddCostRounded(total, p, c) == total + Round4(CallCost(p, c))

\* self.total_cost += call_cost
AddCost(total, p, c) == total + CallCost(p, c)

\* the dict extract_text_and_analyze returns for body c and usage <<p, c>>
OcrResult(body, p, c, total) ==
    [record |-> ParseResponse(body),
     prompt_tokens |-> p, completion_tokens |-> c,
     estimated_cost |-> Round4(CallCost(p, c)),
     total_session_cost |-> Round4(AddCost(total, p, c))]

\* ocr.extract_text_and_analyze, then result['ocr'] and result['success']
Extract ==
    /\ ipc = "extracting"
    /\ \/ /\ \E msg \in Texts("extract") : Fail("extract", msg)
          /\ UNCHANGED total_cost
       \/ \E r \in Responses :
            IF ExtractRaises(r.body)
            THEN /\ Fail("extract", "not a dict")
                 /\ UNCHANGED total_cost
            ELSE /\ total_cost' = AddCost(total_cost, r.prompt, r.completion)
                 /\ result' = [result EXCEPT
                        !.keys = @ \cup {"ocr"},
                        !.ocr = OcrResult(r.body, r.prompt, r.completion, total_cost),
                        !.success = TRUE]
                 /\ ipc' = "rendering"
                 /\ UNCHANGED failure
    /\ UNCHANGED <<config, now, bpc, image_paths, idx, results, trace, ocr_input,
                   base_ts, fs, summaries, pvars, ovars>>

\* "\n".join(md_parts) in _create_markdown raises TypeError when the
\* transcription is not a string
MarkdownRaises(ocr) ==
    "transcription" \in ocr.record.keys /\ ocr.record.transcription.t # "str"

\* base_name from the clock, _create_markdown, output_md.write_text
Render ==
    /\ ipc = "rendering"
    /\ base_ts' = now
    /\ \/ /\ MarkdownRaises(result.ocr)
          /\ Fail("markdown", "join")
          /\ UNCHANGED fs
       \/ /\ ~MarkdownRaises(result.ocr)
          /\ \E msg \in Texts("markdown") : Fail("markdown", msg)
          /\ UNCHANGED fs
       \/ /\ ~MarkdownRaises(result.ocr)
          /\ fs' = WriteFile(fs, NotePath(now, result.source_image, "md"), "md",
                             result.source_image, NoResult)
          /\ result' = [result EXCEPT
                            !.keys = @ \cup {"output_markdown"},
                            !.output_markdown = NotePath(now, result.source_image, "md")]
          /\ ipc' = "auditing"
          /\ UNCHANGED failure
    /\ UNCHANGED <<config, now, bpc, image_paths, idx, results, trace, ocr_input,
                   total_cost, summaries, pvars, ovars>>

\* output_json.write_text(json.dumps(result)), then result['output_json']
Audit ==
    /\ ipc = "auditing"
    /\ \/ /\ \E msg \in Texts("audit") : Fail("audit", msg)
          /\ UNCHANGED fs
       \/ /\ fs' = WriteFile(fs, NotePath(base_ts, result.source_image, "json"),
                             "json", result.source_image, result)
          /\ result' = [result EXCEPT
                            !.keys = @ \cup {"output_json"},
                            !.output_json = NotePath(base_ts, result.source_image, "json")]
          /\ ipc' = "written"
          /\ UNCHANGED failure
    /\ UNCHANGED <<config, now, bpc, image_paths, idx, results, trace, ocr_input,
                   base_ts, total_cost, summaries, pvars, ovars>>

-----------------------------------------------------------------------------
(* NoteIngestionPipeline.process_directory *)

\* the test that never takes the early return
NoImagesNever(paths) == FALSE

\* if not image_paths
NoImages(paths) == paths = <<>>

\* sorted(directory.glob(pattern)) and the early return
Glob ==
    /\ bpc = "start"
    /\ image_paths' = Sorted({n \in config.directory : Matches(config.pattern, n)})
    /\ idx' = 1
    /\ bpc' = IF NoImages(image_paths') THEN "returned" ELSE "loop"
    /\ UNCHANGED <<config, now, results, ipc, result, trace, ocr_input, base_ts,
                   failure, total_cost, fs, summaries, pvars, ovars>>

\* process_single_image returns and its result is appended
Collect ==
    /\ bpc = "loop"
    /\ ipc \in {"written", "failed"}
    /\ results' = Append(results, result)
    /\ idx' = idx + 1
    /\ ipc' = "pending"
    /\ UNCHANGED <<config, now, bpc, image_paths, result, trace, ocr_input,
                   base_ts, failure, total_cost, fs, summaries, pvars, ovars>>

\* sum(1 for r in results if r.get('success'))
Successful(rs) == Cardinality({i \in 1..Len(rs) : rs[i].success})

\* the summary dict
SummaryOf(rs, cost, path) ==
    [path |-> path,
     total_images |-> Len(rs),
     successful |-> Successful(rs),
     failed |-> Len(rs) - Successful(rs),
     total_cost |-> cost,
     results |-> rs]

\* after the loop: the summary is built and written
Summary ==
    /\ bpc = "loop"
    /\ ipc = "pending"
    /\ idx > Len(image_paths)
    /\ \/ /\ bpc' = "raised"
          /\ UNCHANGED summaries
       \/ /\ summaries' = {m \in summaries : m.path # SummaryPath(now)}
                            \cup {SummaryOf(results, total_cost, SummaryPath(now))}
          /\ bpc' = "returned"
    /\ UNCHANGED <<config, now, image_paths, idx, results, ipc, result, trace,
                   ocr_input, base_ts, failure, total_cost, fs, pvars, ovars>>

\* a second passes.  The clock is read where an image's base_name is made and
\* where the summary is named, so seconds that pass between two images stand
\* for every timing of the run
Tick ==
    /\ bpc = "loop"
    /\ ipc = "pending"
    /\ now < MaxClock
    /\ now' = now + 1
    /\ UNCHANGED <<config, bpc, image_paths, idx, results, ipc, result, trace,
                   ocr_input, base_ts, failure, total_cost, fs, summaries, pvars, ovars>>

Directories == {d \in SUBSET Names : Cardinality(d) <= MaxFiles}

PipelineInit ==
    /\ config \in [preprocess_enabled : BOOLEAN, save_processed : BOOLEAN,
                    directory : Directories, pattern : Patterns]
    /\ now = 0
    /\ bpc = "start"
    /\ image_paths = <<>>
    /\ idx = 1
    /\ results = <<>>
    /\ ipc = "pending"
    /\ result = NoResult
    /\ trace = NoTrace
    /\ ocr_input = NoPath
    /\ base_ts = 0
    /\ failure = NoFailure
    /\ total_cost = 0
    /\ fs = {}
    /\ summaries = {}

\* the parsing variables at rest
ParseIdle ==
    /\ content = <<>>
    /\ origin = [wrap |-> "free", dict |-> FALSE, transcription |-> NoVal]
    /\ handed = NotHanded
    /\ parsed = NotParsed
    /\ ppc = "idle"

\* the pipeline variables at rest
PipelineIdle ==
    /\ config = [preprocess_enabled |-> TRUE, save_processed |-> TRUE,
                 directory |-> {}, pattern |-> "*.jpg"]
    /\ now = 0
    /\ bpc = "idle"
    /\ image_paths = <<>>
    /\ idx = 1
    /\ results = <<>>
    /\ ipc = "pending"
    /\ result = NoResult
    /\ trace = NoTrace
    /\ ocr_input = NoPath
    /\ base_ts = 0
    /\ failure = NoFailure
    /\ total_cost = 0
    /\ fs = {}
    /\ summaries = {}

Init == PipelineInit /\ ParseIdle /\ OrientIdle

Next ==
    \/ Glob
    \/ StartImage
    \/ Normalize
    \/ Persist
    \/ Extract
    \/ Render
    \/ Audit
    \/ Collect
    \/ Summary
    \/ Tick

Spec == Init /\ [][Next]_vars

\* a response body under test, the pipeline at rest
ParseSpecInit == ParseInit /\ PipelineIdle /\ OrientIdle

\* the parsing block runs, the pipeline at rest
ParseNext == ParseStep /\ UNCHANGED <<bvars, ovars>>

SpecParse == ParseSpecInit /\ [][ParseNext]_vars

\* an image whose lines are being detected, the rest at rest
OrientSpecInit == OrientInit /\ PipelineIdle /\ ParseIdle

OrientNext ==
    \/ FindLine /\ UNCHANGED <<bvars, pvars>>
    \/ AutoOrient /\ UNCHANGED <<bvars, pvars>>

SpecOrient == OrientSpecInit /\ [][OrientNext]_vars

-----------------------------------------------------------------------------
(* The three tiers as the specification words them *)

JsonFenceAt(c, i) == i + 1 <= Len(c) /\ c[i] = "F" /\ c[i + 1] = "J"
HasJsonFence(c) == \E i \in 1..Len(c) : JsonFenceAt(c, i)
HasFence(c) == \E i \in 1..Len(c) : c[i] = "F"

\* least member of a non-empty set of numbers
Least(S) == CHOOSE i \in S : \A j \in S : i <= j

\* position of the next fence after position p, Len(c) + 1 when there is none
NextFence(c, p) == Least({q \in (p + 1)..(Len(c) + 1) : q = Len(c) + 1 \/ c[q] = "F"})

\* tier 1: between the first fence tagged json and the next fence
TaggedBlock(c) ==
    LET p == Least({i \in 1..Len(c) : JsonFenceAt(c, i)}) IN
    SubSeq(c, p + 2, NextFence(c, p + 1) - 1)

\* tier 2: between the first fence and the next fence
FirstBlock(c) ==
    LET p == Least({i \in 1..Len(c) : c[i] = "F"}) IN
    SubSeq(c, p + 1, NextFence(c, p) - 1)

TierOf(c) == IF HasJsonFence(c) THEN 1 ELSE IF HasFence(c) THEN 2 ELSE 3
TierText(c) ==
    IF HasJsonFence(c) THEN TaggedBlock(c)
    ELSE IF HasFence(c) THEN FirstBlock(c)
    ELSE c

\* some tier that applies to c gives text that json.loads turns into an object
YieldsObject(t) == JsonLoads(t).ok /\ JsonLoads(t).dict
SomeTierYields(c) ==
    \/ HasJsonFence(c) /\ YieldsObject(TaggedBlock(c))
    \/ HasFence(c) /\ YieldsObject(FirstBlock(c))
    \/ YieldsObject(c)

IsFallbackOf(r, c) ==
    /\ r.dict /\ r.fallback
    /\ r.transcription = StrVal(c)
    /\ r.key_concepts = <<>> /\ r.themes = <<>>
    /\ r.questions_or_insights = <<>> /\ r.suggested_tags = <<>>
    /\ r.quality_rating = 3
    /\ r.notes = "Response was not in expected JSON format"

-----------------------------------------------------------------------------
(* Claims about the parsing block, under SpecParse *)

\* C4: for every response body from which no parsing tier yields a structured
\* record (plain text, or text that is a JSON number, string or null), the
\* extraction does not raise and returns the fallback record: transcription
\* equal to the raw body, the four lists empty, quality_rating 3 and the notes
\* text about the unexpected format.
C4_FallbackForEveryUnstructuredBody ==
    (ppc = "parsed" /\ ~SomeTierYields(content))
        => (~parsed.raised /\ IsFallbackOf(parsed.record, content))

\* C5: for a response wrapped in a json-tagged fence whose fenced content is
\* a JSON object with a transcription member, the parsed record's
\* transcription equals that member, whatever the member's string holds.
C5_FencedTranscriptionExact ==
    (ppc = "parsed" /\ origin.wrap = "json" /\ origin.dict
            /\ origin.transcription.t # "absent")
        => /\ ~parsed.raised
           /\ ~parsed.record.fallback
           /\ "transcription" \in parsed.record.keys
           /\ parsed.record.transcription = origin.transcription

\* C6: the text given to the JSON parser is the block after the first fence
\* tagged json when there is one, else the block after the first fence when
\* there is one, else the whole body; that one text alone is tried, so the
\* fallback record is produced exactly when that text does not parse.
C6_ThreeTierDecision ==
    ppc = "parsed"
        => /\ handed.tier = TierOf(content)
           /\ Strip(handed.text) = Strip(TierText(content))
           /\ parsed.record.fallback <=> ~JsonLoads(TierText(content)).ok

\* a body whose only fences sit inside a string of bare JSON: the second tier
\* is taken, fails, and the whole body (which would parse) is not tried
C6_Witness ==
    /\ ppc = "parsed"
    /\ handed.tier = 2
    /\ parsed.record.fallback
    /\ YieldsObject(content)

-----------------------------------------------------------------------------
(* Claims about the pipeline, under Spec *)

\* process_single_image is at its return statement
AtReturn == ipc \in {"written", "failed"}

\* the results process_single_image has returned or is returning
ReturnedResults ==
    {results[i] : i \in 1..Len(results)} \cup (IF AtReturn THEN {result} ELSE {})

\* the markdown and audit files that image img has written
NoteFilesOf(img) == {f \in fs : f.src = img /\ f.kind \in {"md", "json"}}

\* C1: in every result process_single_image returns, success is true if and
\* only if an extraction record was obtained and both the markdown file and
\* the audit JSON file were written without error.
C1_SuccessIffRecordAndBothFiles ==
    \A r \in ReturnedResults :
        r.success <=> /\ "ocr" \in r.keys
                      /\ "output_markdown" \in r.keys
                      /\ "output_json" \in r.keys
                      /\ "error" \notin r.keys

\* C2: process_single_image never raises to its caller: whichever stage raises
\* first, the function still returns its result dict (the batch loop receives
\* and appends it), and that result carries the text of that exception.
C2_FailureReturnsResultWithText ==
    failure.stage # "none" =>
        IF ipc = "failed"
        THEN "error" \in result.keys /\ result.error = failure.msg
        ELSE /\ ipc = "pending"
             /\ Len(results) >= 1
             /\ results[Len(results)].source_image = result.source_image
             /\ "error" \in results[Len(results)].keys
             /\ results[Len(results)].error = failure.msg

\* the audit write of a second image raised, and the result was handed back
\* to the loop, which goes on after an earlier result
C2_Witness ==
    /\ failure.stage = "audit"
    /\ ipc = "pending"
    /\ Len(results) = 2
    /\ results[2].error = "audit"

\* C3: if the extraction call raises for an image, whatever the exception's
\* message, the result has success false, a non-empty error string, and no
\* markdown or audit JSON file exists for that image.
C3_ExtractionFailure ==
    (ipc = "failed" /\ failure.stage = "extract") =>
        /\ ~result.success
        /\ "error" \in result.keys
        /\ result.error # ""
        /\ NoteFilesOf(result.source_image) = {}

RECURSIVE SumOver(_, _)
\* the sum of f[x] over the members of the set S
SumOver(S, f) ==
    IF S = {} THEN 0
    ELSE LET x == CHOOSE y \in S : TRUE IN f[x] + SumOver(S \ {x}, f)

\* the records the extraction calls have returned so far, by image
ReturnedRecords ==
    LET collected == {results[i] : i \in 1..Len(results)}
        current == IF ipc \in {"rendering", "auditing", "written", "failed"}
                   THEN {result} ELSE {}
    IN {r \in collected \cup current : "ocr" \in r.keys}

EmptyBatchDone == bpc = "returned" /\ image_paths = <<>>

\* C8 as claimed: a directory without a matching file gives an empty result
\* sequence and a persisted batch summary with total_images, successful and
\* failed all 0.
C8_EmptyBatchHasSummary ==
    EmptyBatchDone =>
        /\ results = <<>>
        /\ \E m \in summaries :
              m.total_images = 0 /\ m.successful = 0 /\ m.failed = 0

\* C8 as amended: a directory without a matching file gives an empty result
\* sequence, and no batch summary is built or written (nor any other file).
C8_EmptyBatchWritesNothing ==
    EmptyBatchDone =>
        /\ results = <<>>
        /\ summaries = {}
        /\ fs = {}
        /\ total_cost = 0

\* the directory holds files, but none matches the pattern
C8_Witness == EmptyBatchDone /\ config.directory # {}

\* C9: in every batch summary successful + failed = total_images, and failed
\* is the number of images whose result carries an error: no image that hit
\* an error at any stage is counted as successful.
C9_FailedCountsEveryError ==
    \A m \in summaries :
        /\ m.successful + m.failed = m.total_images
        /\ m.failed =
              Cardinality({i \in 1..Len(m.results) : "error" \in m.results[i].keys})

\* image_paths holds exactly the matching files, in ascending order of name
MatchedAscending ==
    /\ {image_paths[i] : i \in 1..Len(image_paths)}
            = {n \in config.directory : Matches(config.pattern, n)}
    /\ \A i \in 1..Len(image_paths) : \A j \in 1..Len(image_paths) :
            i < j => NameLess(image_paths[i], image_paths[j])

\* C10: process_directory processes every matched file exactly once, in
\* ascending name order, one image finished before the next begins; an image
\* that fails does not stop the ones after it, so the results are one per
\* matched file in that order, and the summary is written after the last.
C10_SequentialInOrder ==
    /\ bpc # "start" => MatchedAscending
    /\ Len(results) <= Len(image_paths)
    /\ bpc = "loop" => Len(results) = idx - 1
    /\ \A i \in 1..Len(results) : results[i].source_image = image_paths[i]
    /\ ipc # "pending" =>
            /\ bpc = "loop"
            /\ idx <= Len(image_paths)
            /\ result.source_image = image_paths[idx]
    /\ (bpc \in {"returned", "raised"} \/ summaries # {}) =>
            Len(results) = Len(image_paths)
    /\ (bpc = "returned" /\ image_paths # <<>>) =>
            \E m \in summaries : m.results = results

\* a batch of two whose first image failed and whose second succeeded has
\* returned with its summary written
C10_Witness ==
    /\ bpc = "returned"
    /\ Len(results) = 2
    /\ "error" \in results[1].keys
    /\ "output_json" \in results[2].keys
    /\ summaries # {}

-----------------------------------------------------------------------------
(* C11: the stages of one image *)

\* the place of a stage in the order of the try block
Rank(stage) ==
    CASE stage = "pending" -> 0
      [] stage = "normalizing" -> 1
      [] stage = "persisting" -> 2
      [] stage = "extracting" -> 3
      [] stage = "rendering" -> 4
      [] stage = "auditing" -> 5
      [] stage = "written" -> 6
      [] stage = "failed" -> 7

\* the stage that follows on success; saving the normalized image belongs to
\* normalizing, writing the audit JSON to rendering
Follows(stage) ==
    CASE stage = "pending" ->
            IF config.preprocess_enabled THEN "normalizing" ELSE "extracting"
      [] stage = "normalizing" -> "persisting"
      [] stage = "persisting" -> "extracting"
      [] stage = "extracting" -> "rendering"
      [] stage = "rendering" -> "auditing"
      [] stage = "auditing" -> "written"
      [] OTHER -> "pending"

-----------------------------------------------------------------------------
(* C12: the dominant bucket, under SpecOrient *)

\* the four buckets centred at 0, 90, 180 and 270 degrees; the bucket at 0
\* holds [0, 45) together with [315, 360)
Bucket(a) ==
    IF a < 45 \/ a >= 315 THEN 0
    ELSE IF a < 135 THEN 90
    ELSE IF a < 225 THEN 180
    ELSE 270

\* how many lines fall into the bucket centred at b
BucketCount(ls, b) ==
    TotalLines([a \in DOMAIN ls |-> IF Bucket(a) = b THEN ls[a] ELSE 0], DOMAIN ls)

\* b holds more lines than every other bucket
Dominant(ls, b) ==
    \A c \in {0, 90, 180, 270} \ {b} : BucketCount(ls, c) < BucketCount(ls, b)

-----------------------------------------------------------------------------
(* C13: the normalization trace in the returned result *)

\* preprocessor.process_image returned for the image in hand
Normalized == trace # NoTrace

\* C13: whenever normalization of an image succeeded, the result returned for
\* it contains the normalization trace, with save_processed on or off and
\* whether or not a later stage failed; when a later stage failed the result
\* has success false together with the trace.
C13_TraceInEveryNormalizedResult ==
    (AtReturn /\ Normalized) =>
        /\ "preprocessing" \in result.keys
        /\ result.preprocessing = trace
        /\ (failure # NoFailure => ~result.success)

-----------------------------------------------------------------------------
(* C14: the audit JSON on disk against the returned result *)

\* the audit files on disk at the path the result names
AuditFilesOf(res) == {f \in fs : f.kind = "json" /\ f.path = res.output_json}

\* C14: for every successfully processed image the audit JSON on disk is the
\* full result returned for it, with the same fields and values (both output
\* paths among them), and its stem is the markdown file's timestamped stem.
C14_AuditIsReturnedResult ==
    ipc = "written" =>
        /\ AuditFilesOf(result) # {}
        /\ \A f \in AuditFilesOf(result) : f.data = result
        /\ result.output_json = [result.output_markdown EXCEPT !.ext = "json"]

-----------------------------------------------------------------------------
(* C15: one file set per image *)

\* the results returned so far, the one being returned last
ReturnedSeq == IF AtReturn THEN Append(results, result) ELSE results

\* the output paths a result names
OutputPathsOf(res) ==
    {res[k] : k \in res.keys \cap {"output_markdown", "output_json", "preprocessed_image"}}

\* C15: under sequential processing any two distinct source images processed by
\* one pipeline, also images sharing a stem and processed within one clock
\* second, have distinct markdown, audit and processed-image paths, so that no
\* image's output overwrites another's.
C15_OneFileSetPerImage ==
    \A i, j \in 1..Len(ReturnedSeq) :
        ReturnedSeq[i].source_image # ReturnedSeq[j].source_image =>
            OutputPathsOf(ReturnedSeq[i]) \cap OutputPathsOf(ReturnedSeq[j]) = {}

====
